---- MODULE Spec2Model ----
(***************************************************************************)
(* CSV ingestion pipeline of the e-commerce chatbot (src/loaddata.py) and  *)
(* the schema it loads into (src/datbasesetp.py).                          *)
(*                                                                         *)
(* Specifications:                                                         *)
(*   Spec           one CSVDataIngestion object: connect and               *)
(*                  load_categories_csv against a categories store.        *)
(*   SpecValidator  the static DataValidator functions applied to a        *)
(*                  bounded set of Python values.                          *)
(*   SpecMessages   inserts into the messages table / collection as the    *)
(*                  setup script provisions it.                            *)
(*   SpecSetup      one run of the setup script's main().                  *)
(*   SpecReferences product and order-item rows resolved against the       *)
(*                  provisioned schema.                                    *)
(***************************************************************************)
EXTENDS Integers, Sequences, FiniteSets, TLC

VARIABLES
    db_type,      \* self.db_type
    connection,   \* self.connection is not None
    engine,       \* self.engine is not None
    db,           \* self.db has been assigned (document backend handle)
    stats,        \* self.stats
    categories,   \* rows of the categories table / collection, in insert order
    last,         \* observation of the last call on the object
    vcall,        \* observation of the last DataValidator call
    msgstore,     \* the messages table / collection of one backend
    setup,        \* one run of the setup script: position and connections
    refs          \* stores and counters of the reference-carrying entities

vars ==
    <<db_type, connection, engine, db, stats, categories, last, vcall,
      msgstore, setup, refs>>

ingestVars == <<db_type, connection, engine, db, stats, categories, last>>

schemaVars == <<msgstore, setup, refs>>

(***************************************************************************)
(* Bounds of the model.                                                    *)
(***************************************************************************)
MaxLen == 3       \* longest enumerated input string of a validator
MaxRows == 2      \* most rows of one categories source
MaxStore == 2     \* most rows the categories store holds
MaxErrors == 1    \* cap of the errors counter
MaxConversations == 2   \* conversations messages are inserted into
MaxMessages == 3  \* most rows the messages store holds
MaxItemRows == 2  \* most order-item rows one run loads

(***************************************************************************)
(* Python values.  A text is a sequence of one-character strings.  A       *)
(* finite float is the exact decimal (-1)^neg * mant / 10^scale, kept      *)
(* normalised (no trailing fractional zero).                               *)
(***************************************************************************)
None == [t |-> "none"]
NaN == [t |-> "nan"]
PyStr(s) == [t |-> "str", s |-> s]
PyInt(v) == [t |-> "int", v |-> v]
PyBool(b) == [t |-> "bool", b |-> b]
PyInf(neg) == [t |-> "inf", neg |-> neg]
Raise(exc) == [t |-> "raise", exc |-> exc]

RECURSIVE Pow10(_)
Pow10(k) == IF k = 0 THEN 1 ELSE 10 * Pow10(k - 1)

RECURSIVE Normalise(_, _, _)
Normalise(neg, mant, scale) ==
    IF scale > 0 /\ mant % 10 = 0
    THEN Normalise(neg, mant \div 10, scale - 1)
    ELSE [t |-> "float", neg |-> neg, mant |-> mant, scale |-> scale]

PyFloat(neg, mant, scale) == Normalise(neg, mant, scale)

Digits == {"0", "1", "2", "3", "4", "5", "6", "7", "8", "9"}

DigitVal(c) ==
    CASE c = "0" -> 0 [] c = "1" -> 1 [] c = "2" -> 2 [] c = "3" -> 3
      [] c = "4" -> 4 [] c = "5" -> 5 [] c = "6" -> 6 [] c = "7" -> 7
      [] c = "8" -> 8 [] c = "9" -> 9

DigitChar(d) ==
    CASE d = 0 -> "0" [] d = 1 -> "1" [] d = 2 -> "2" [] d = 3 -> "3"
      [] d = 4 -> "4" [] d = 5 -> "5" [] d = 6 -> "6" [] d = 7 -> "7"
      [] d = 8 -> "8" [] d = 9 -> "9"

Whitespace == {" "}

(***************************************************************************)
(* str methods used by the validators.                                     *)
(***************************************************************************)
RECURSIVE lstrip(_)
lstrip(s) ==
    IF s # <<>> /\ Head(s) \in Whitespace THEN lstrip(Tail(s)) ELSE s

RECURSIVE rstrip(_)
rstrip(s) ==
    IF s # <<>> /\ s[Len(s)] \in Whitespace
    THEN rstrip(SubSeq(s, 1, Len(s) - 1))
    ELSE s

strip(s) == rstrip(lstrip(s))

\* s.replace(c, '')
RECURSIVE replace(_, _)
replace(s, c) ==
    IF s = <<>> THEN <<>>
    ELSE IF Head(s) = c THEN replace(Tail(s), c)
    ELSE <<Head(s)>> \o replace(Tail(s), c)

\* c in s
Contains(s, c) == \E i \in 1..Len(s) : s[i] = c

\* decimal digits of a natural number
RECURSIVE NatStr(_)
NatStr(n) ==
    IF n < 10 THEN <<DigitChar(n)>>
    ELSE NatStr(n \div 10) \o <<DigitChar(n % 10)>>

\* the k low decimal digits of n, zero padded
RECURSIVE FracStr(_, _)
FracStr(n, k) ==
    IF k = 0 THEN <<>>
    ELSE FracStr(n \div 10, k - 1) \o <<DigitChar(n % 10)>>

\* str(value)
py_str(v) ==
    CASE v.t = "str" -> v.s
      [] v.t = "none" -> <<"N", "o", "n", "e">>
      [] v.t = "nan" -> <<"n", "a", "n">>
      [] v.t = "inf" -> (IF v.neg THEN <<"-">> ELSE <<>>) \o <<"i", "n", "f">>
      [] v.t = "int" ->
            (IF v.v < 0 THEN <<"-">> ELSE <<>>)
                \o NatStr(IF v.v < 0 THEN -v.v ELSE v.v)
      [] v.t = "float" ->
            (IF v.neg THEN <<"-">> ELSE <<>>)
                \o NatStr(v.mant \div Pow10(v.scale)) \o <<".">>
                \o (IF v.scale = 0 THEN <<"0">>
                    ELSE FracStr(v.mant % Pow10(v.scale), v.scale))

(***************************************************************************)
(* Built-in conversions.                                                   *)
(***************************************************************************)
\* value of a text of decimal digits
RECURSIVE StrNat(_)
StrNat(s) ==
    IF s = <<>> THEN 0
    ELSE 10 * StrNat(SubSeq(s, 1, Len(s) - 1)) + DigitVal(s[Len(s)])

\* position of the first "." of s, or Len(s) + 1
RECURSIVE DotPos(_)
DotPos(s) ==
    IF s = <<>> \/ Head(s) = "." THEN 1 ELSE 1 + DotPos(Tail(s))

\* float(text): surrounding whitespace and one sign are accepted, then
\* "inf", "infinity", "nan", or digits with at most one "." and at least one
\* digit.  (Exponents, "_" and upper case do not occur in the inputs.)
float_of_text(s) ==
    LET s1 == strip(s)
        signed == s1 # <<>> /\ Head(s1) \in {"-", "+"}
        neg == s1 # <<>> /\ Head(s1) = "-"
        body == IF signed THEN Tail(s1) ELSE s1
        digs == replace(body, ".")
        dots == Len(body) - Len(digs)
    IN  IF body \in {<<"i", "n", "f">>,
                     <<"i", "n", "f", "i", "n", "i", "t", "y">>}
        THEN PyInf(neg)
        ELSE IF body = <<"n", "a", "n">> THEN NaN
        ELSE IF /\ digs # <<>>
                /\ \A i \in 1..Len(digs) : digs[i] \in Digits
                /\ dots <= 1
        THEN PyFloat(neg, StrNat(digs), Len(body) - DotPos(body) + 1 - dots)
        ELSE Raise("ValueError")

\* float(value)
py_float(v) ==
    CASE v.t = "str" -> float_of_text(v.s)
      [] v.t = "int" -> PyFloat(v.v < 0, IF v.v < 0 THEN -v.v ELSE v.v, 0)
      [] v.t \in {"float", "inf", "nan"} -> v
      [] v.t = "none" -> Raise("TypeError")

\* int(x) rounding toward minus infinity instead
py_int_floor(f) ==
    CASE f.t = "float" ->
            LET q == f.mant \div Pow10(f.scale)
                exact == f.mant % Pow10(f.scale) = 0
            IN  PyInt(IF f.neg THEN (IF exact THEN -q ELSE -(q + 1)) ELSE q)
      [] f.t = "inf" -> Raise("OverflowError")
      [] f.t = "nan" -> Raise("ValueError")

\* int(x) of a float x: truncation toward zero
py_int(f) ==
    CASE f.t = "float" ->
            LET q == f.mant \div Pow10(f.scale)
            IN  PyInt(IF f.neg THEN -q ELSE q)
      [] f.t = "inf" -> Raise("OverflowError")
      [] f.t = "nan" -> Raise("ValueError")

\* x >= 0 of a float x
float_ge_zero(f) ==
    CASE f.t = "float" -> ~f.neg \/ f.mant = 0
      [] f.t = "inf" -> ~f.neg
      [] f.t = "nan" -> FALSE

\* pandas.isna(scalar)
pd_isna(v) == v.t \in {"nan", "none"}

\* bool(value)
truthy(v) ==
    CASE v.t = "none" -> FALSE
      [] v.t = "str" -> v.s # <<>>
      [] v.t = "int" -> v.v # 0
      [] v.t = "float" -> v.mant # 0
      [] v.t \in {"nan", "inf"} -> TRUE

(***************************************************************************)
(* DataValidator.  A result is a Python value, or Raise(exc) when the call *)
(* propagates an exception to its caller.                                  *)
(***************************************************************************)
clean_text(text) ==
    IF pd_isna(text) \/ text = None
    THEN PyStr(<<>>)
    ELSE PyStr(strip(py_str(text)))

validate_email(email) ==
    IF ~truthy(email) THEN PyBool(FALSE)
    ELSE IF email.t # "str" THEN Raise("TypeError")    \* '@' not in <number>
    ELSE IF ~Contains(email.s, "@") THEN PyBool(FALSE)
    ELSE PyBool(TRUE)

\* an exception of the classes the validators catch
Caught(r) == r.t = "raise" /\ r.exc \in {"ValueError", "TypeError"}

\* validate_price giving 0 for a negative price instead of None
validate_price_clamped(price) ==
    IF pd_isna(price) THEN None
    ELSE LET price_float ==
                 float_of_text(replace(replace(py_str(price), "$"), ","))
         IN  IF Caught(price_float) THEN None
             ELSE IF float_ge_zero(price_float) THEN price_float
             ELSE PyFloat(FALSE, 0, 0)

validate_price(price) ==
    IF pd_isna(price) THEN None
    ELSE LET price_float ==
                 float_of_text(replace(replace(py_str(price), "$"), ","))
         IN  IF Caught(price_float) THEN None
             ELSE IF float_ge_zero(price_float) THEN price_float
             ELSE None

validate_integer(value) ==
    IF pd_isna(value) THEN None
    ELSE LET f == py_float(value)
         IN  IF Caught(f) THEN None
             ELSE LET i == py_int(f)
                  IN  IF Caught(i) THEN None ELSE i

(***************************************************************************)
(* CSVDataIngestion: construction.                                         *)
(***************************************************************************)
EntityTypes ==
    {"categories", "products", "orders", "order_items", "users",
     "conversations"}

ZeroStats == [processed |-> 0, inserted |-> 0, errors |-> 0]

DbTypes == {"postgresql", "mysql", "mongodb", "sqlite"}

SqlTypes == {"postgresql", "mysql"}

NoCall ==
    [op |-> "init", ret |-> TRUE, readable |-> TRUE, columns |-> {},
     rows |-> 0, empty |-> 0, dup |-> 0, known |-> 0, cleaned |-> FALSE,
     path |-> "none", persisted |-> 0, rejected |-> 0, counted |-> 0]

NoValidatorCall == [fn |-> "none", arg |-> None, result |-> None]

\* SQL NULL, an absent field of a document
Null == 0

NoMessages == [backend |-> "none", messages |-> <<>>, ok |-> TRUE]

NoSetup == [pc |-> "idle"]

NoRefs == [backend |-> "none"]

Init ==
    /\ msgstore = NoMessages
    /\ setup = NoSetup
    /\ refs = NoRefs
    /\ db_type \in DbTypes
    /\ connection = FALSE
    /\ engine = FALSE
    /\ db = FALSE
    /\ stats = [e \in EntityTypes |-> ZeroStats]
    /\ categories = <<>>
    /\ last = NoCall
    /\ vcall = NoValidatorCall

(***************************************************************************)
(* CSVDataIngestion.connect.  outcome is what the driver does: "ok", the   *)
(* driver's connect call raises ("connect_raises"), or a later statement   *)
(* of the branch raises once the connection object is assigned             *)
(* ("later_raises": a key missing from connection_config, create_engine).  *)
(***************************************************************************)
ConnectOutcomes == {"ok", "connect_raises", "later_raises"}

connect(outcome) ==
    IF db_type \in SqlTypes
    THEN [connection |-> connection \/ outcome # "connect_raises",
          engine |-> engine \/ outcome = "ok",
          db |-> db,
          ret |-> outcome = "ok"]
    ELSE IF db_type = "mongodb"
    THEN [connection |-> connection \/ outcome # "connect_raises",
          engine |-> engine,
          db |-> db \/ outcome = "ok",
          ret |-> outcome = "ok"]
    ELSE [connection |-> connection, engine |-> engine, db |-> db,
          ret |-> TRUE]

Connect ==
    \E outcome \in ConnectOutcomes :
        LET r == connect(outcome)
        IN  /\ connection' = r.connection
            /\ engine' = r.engine
            /\ db' = r.db
            /\ last' = [NoCall EXCEPT !.op = "connect", !.ret = r.ret]
            /\ UNCHANGED <<db_type, stats, categories, vcall, schemaVars>>

(***************************************************************************)
(* Categories sources.  A source is a CSV file: whether pandas can read    *)
(* it, its header, and the cells of its name column as read_csv yields     *)
(* them (an empty cell is NaN; text is kept verbatim).  The cells of the   *)
(* description column are cleaned by clean_text, which returns for every   *)
(* cell, and take no part in filtering or deduplication: they are left     *)
(* out.  The schema is provisioned, and sources carry no further column.   *)
(***************************************************************************)
NameCells == {NaN, PyStr(<<"B">>), PyStr(<<" ", "B">>), PyStr(<<"T", " ">>)}

SeqsUpTo(S, n) == UNION {[1..k -> S] : k \in 0..n}

Sources ==
    {[readable |-> FALSE, columns |-> {}, names |-> <<>>]}
        \cup {[readable |-> TRUE, columns |-> c, names |-> <<>>] :
                c \in {{}, {"description"}}}
        \cup {[readable |-> TRUE, columns |-> c, names |-> n] :
                c \in {{"name"}, {"name", "description"}},
                n \in SeqsUpTo(NameCells, MaxRows)}

\* index of the record at which the backend fails; 0: it does not fail.
\* Only a source with both columns gets as far as the backend.
Faults(csv) ==
    IF csv.columns # {"name", "description"} THEN {0}
    ELSE 0..(IF Len(csv.names) = 0 THEN 1 ELSE Len(csv.names))

Range(s) == {s[i] : i \in 1..Len(s)}

\* what a source holds, whatever the loader does with it
TrimmedNames(csv) == [i \in 1..Len(csv.names) |-> clean_text(csv.names[i]).s]

SourceFacts ==
    [csv \in Sources |->
        LET trimmed == TrimmedNames(csv)
            distinct == Range(trimmed) \ {<<>>}
            empty == Cardinality({i \in 1..Len(trimmed) : trimmed[i] = <<>>})
        IN  [rows |-> Len(trimmed), empty |-> empty, distinct |-> distinct,
             dup |-> Len(trimmed) - empty - Cardinality(distinct)]]

(***************************************************************************)
(* CSVDataIngestion.load_categories_csv.                                   *)
(***************************************************************************)
required_columns == {"name"}

\* the required-column check left out
has_required_columns_skipped(csv) == TRUE

has_required_columns(csv) == \A col \in required_columns : col \in csv.columns

\* df[df['name'] != '']
remove_empty_names(names) == SelectSeq(names, LAMBDA n : n # <<>>)

\* df.drop_duplicates(subset=['name']): the first occurrence is kept
RECURSIVE drop_duplicates(_)
drop_duplicates(names) ==
    IF names = <<>> THEN <<>>
    ELSE LET front == drop_duplicates(SubSeq(names, 1, Len(names) - 1))
             n == names[Len(names)]
         IN  IF Contains(front, n) THEN front ELSE Append(front, n)

\* lines 152-159: the frame after cleaning, filtering and deduplication
CleanedFrame(csv) ==
    drop_duplicates(remove_empty_names(
        [i \in 1..Len(csv.names) |-> clean_text(csv.names[i]).s]))

Frames == [csv \in Sources |-> CleanedFrame(csv)]

\* name VARCHAR(100) UNIQUE of the relational schema
Unique(table) == \A i, j \in 1..Len(table) : table[i] = table[j] => i = j

\* df.to_sql('categories', engine, if_exists='append', method='multi') on a
\* provisioned schema: one multi-row INSERT in one transaction.
to_sql(df, fault) ==
    IF ~engine THEN [ok |-> FALSE, path |-> "no_engine", table |-> categories]
    ELSE IF fault > 0
    THEN [ok |-> FALSE, path |-> "backend_down", table |-> categories]
    ELSE IF ~Unique(categories \o df)
    THEN [ok |-> FALSE, path |-> "insert_error", table |-> categories]
    ELSE [ok |-> TRUE, path |-> "ok", table |-> categories \o df]

\* self.db.categories.insert_many(records): an ordered bulk insert, which
\* stops at the first failing document; the collection has no unique index.
insert_many(records, fault) ==
    IF ~db THEN [ok |-> FALSE, path |-> "no_engine", table |-> categories]
    ELSE IF fault \in 1..Len(records)
    THEN [ok |-> FALSE, path |-> "insert_error",
          table |-> categories \o SubSeq(records, 1, fault - 1)]
    ELSE [ok |-> TRUE, path |-> "ok", table |-> categories \o records]

\* the except branch: one error is counted and False is returned
Failed(st, path, cleaned, table) ==
    [ret |-> FALSE, path |-> path, cleaned |-> cleaned, table |-> table,
     stats |-> [st EXCEPT !.errors = @ + 1]]

Returned(ret, st, path, cleaned, table) ==
    [ret |-> ret, path |-> path, cleaned |-> cleaned, table |-> table,
     stats |-> st]

load_categories_csv(csv, fault) ==
    LET st == stats["categories"]
    IN  IF ~csv.readable
        THEN Failed(st, "read_error", FALSE, categories)
        ELSE IF ~has_required_columns(csv)
        THEN Returned(FALSE, st, "missing_columns", FALSE, categories)
        ELSE IF "name" \notin csv.columns
        THEN Failed(st, "clean_error", FALSE, categories)     \* KeyError
        ELSE IF "description" \notin csv.columns
        THEN \* df.get('description', '') is the str '', which has no apply
             Failed(st, "clean_error", TRUE, categories)
        ELSE
        LET df == Frames[csv]
            st1 == [st EXCEPT !.processed = Len(df)]
        IN  IF db_type \in SqlTypes
            THEN LET r == to_sql(df, fault)
                 IN  IF r.ok
                     THEN Returned(TRUE, [st1 EXCEPT !.inserted = Len(df)],
                                   r.path, TRUE, r.table)
                     ELSE Failed(st1, r.path, TRUE, r.table)
            ELSE IF db_type = "mongodb"
            THEN IF df = <<>>
                 THEN Returned(TRUE, st1, "ok", TRUE, categories)
                 ELSE LET r == insert_many(df, fault)
                      IN  IF r.ok
                          THEN Returned(TRUE,
                                        [st1 EXCEPT !.inserted = Len(df)],
                                        r.path, TRUE, r.table)
                          ELSE Failed(st1, r.path, TRUE, r.table)
            ELSE Returned(TRUE, st1, "no_backend", TRUE, categories)

\* records the backend refuses one by one in this call
Rejected(known, path) ==
    IF path # "insert_error" THEN 0
    ELSE IF db_type \in SqlTypes THEN known
    ELSE 1

LoadCategories ==
    \E csv \in Sources : \E fault \in Faults(csv) :
        \E r \in {load_categories_csv(csv, fault)},
           known \in {Cardinality(SourceFacts[csv].distinct \cap Range(categories))} :
            /\ r.stats.errors <= MaxErrors
            /\ Len(r.table) <= MaxStore
            /\ stats' = [stats EXCEPT !["categories"] = r.stats]
            /\ categories' = r.table
            /\ last' = [op |-> "load_categories_csv", ret |-> r.ret,
                        readable |-> csv.readable, columns |-> csv.columns,
                        rows |-> SourceFacts[csv].rows,
                        empty |-> SourceFacts[csv].empty,
                        dup |-> SourceFacts[csv].dup,
                        known |-> known,
                        cleaned |-> r.cleaned, path |-> r.path,
                        persisted |-> Len(r.table) - Len(categories),
                        rejected |-> Rejected(known, r.path),
                        counted |-> r.stats.errors
                                        - stats["categories"].errors]
            /\ UNCHANGED <<db_type, connection, engine, db, vcall, schemaVars>>

Next == Connect \/ LoadCategories

Spec == Init /\ [][Next]_vars

(***************************************************************************)
(* DataValidator applied to one value.                                     *)
(***************************************************************************)
Alphabet == {" ", "$", ",", "-", ".", "0", "5", "@", "a"}

ExampleTexts ==
    {<<"$", "1", ",", "2", "9", "9", ".", "0", "0">>,
     <<"-", "2", ".", "5">>,
     <<"1", "9", ".", "9", "9">>,
     <<"i", "n", "f">>,
     <<"-", "i", "n", "f">>,
     <<"n", "a", "n">>,
     <<"a", "@", "b", ".", "c", "o">>}

Numbers ==
    {PyInt(-5), PyInt(0), PyInt(7),
     PyFloat(TRUE, 25, 1), PyFloat(FALSE, 25, 1), PyFloat(FALSE, 0, 0),
     PyInf(FALSE), PyInf(TRUE)}

Values ==
    {None, NaN} \cup Numbers
        \cup {PyStr(s) : s \in SeqsUpTo(Alphabet, MaxLen) \cup ExampleTexts}

\* no ingestion object is in use
NoIngestion ==
    /\ db_type = "postgresql"
    /\ connection = FALSE
    /\ engine = FALSE
    /\ db = FALSE
    /\ stats = [e \in EntityTypes |-> ZeroStats]
    /\ categories = <<>>
    /\ last = NoCall

InitValidator ==
    /\ NoIngestion
    /\ msgstore = NoMessages
    /\ setup = NoSetup
    /\ refs = NoRefs
    /\ vcall \in {[fn |-> "none", arg |-> v, result |-> None] : v \in Values}

CleanText ==
    /\ vcall.fn = "none"
    /\ vcall' = [vcall EXCEPT !.fn = "clean_text",
                              !.result = clean_text(vcall.arg)]
    /\ UNCHANGED <<ingestVars, schemaVars>>

ValidateEmail ==
    /\ vcall.fn = "none"
    /\ vcall' = [vcall EXCEPT !.fn = "validate_email",
                              !.result = validate_email(vcall.arg)]
    /\ UNCHANGED <<ingestVars, schemaVars>>

ValidatePrice ==
    /\ vcall.fn = "none"
    /\ vcall' = [vcall EXCEPT !.fn = "validate_price",
                              !.result = validate_price(vcall.arg)]
    /\ UNCHANGED <<ingestVars, schemaVars>>

ValidateInteger ==
    /\ vcall.fn = "none"
    /\ vcall' = [vcall EXCEPT !.fn = "validate_integer",
                              !.result = validate_integer(vcall.arg)]
    /\ UNCHANGED <<ingestVars, schemaVars>>

NextValidator == CleanText \/ ValidateEmail \/ ValidatePrice \/ ValidateInteger

SpecValidator == InitValidator /\ [][NextValidator]_vars

(***************************************************************************)
(* The messages store.  PostgreSQL numbers a message in a BEFORE INSERT    *)
(* row trigger; the MySQL schema creates no messages table; the MongoDB    *)
(* collection stores a document as it is given.  A message row is its      *)
(* conversation and its sequence_number (Null when the source gives none). *)
(***************************************************************************)
MsgBackends == {"postgresql", "mysql", "mongodb"}

Conversations == 1..MaxConversations

\* sequence numbers a source may carry
SuppliedNumbers == {Null, 1, 3}

Max(S) == CHOOSE x \in S : \A y \in S : y <= x

\* COALESCE((SELECT MAX(sequence_number) + 1 FROM messages
\*           WHERE conversation_id = NEW.conversation_id), 1)
set_message_sequence(table, conversation_id) ==
    LET numbers ==
            {table[i].sequence_number : i \in
                {j \in 1..Len(table) :
                    /\ table[j].conversation_id = conversation_id
                    /\ table[j].sequence_number # Null}}
    IN  IF numbers = {} THEN 1 ELSE Max(numbers) + 1

\* one INSERT of a row into messages
insert_message(backend, table, row) ==
    IF backend = "postgresql"
    THEN [ok |-> TRUE,
          messages |-> Append(table,
              [row EXCEPT !.sequence_number =
                  set_message_sequence(table, row.conversation_id)])]
    ELSE IF backend = "mongodb"
    THEN [ok |-> TRUE, messages |-> Append(table, row)]
    ELSE [ok |-> FALSE, messages |-> table]      \* no such table

InitMessages ==
    /\ NoIngestion
    /\ vcall = NoValidatorCall
    /\ setup = NoSetup
    /\ refs = NoRefs
    /\ msgstore \in {[backend |-> b, messages |-> <<>>, ok |-> TRUE] :
                        b \in MsgBackends}

InsertMessage ==
    \E c \in Conversations, n \in SuppliedNumbers :
        \E r \in {insert_message(msgstore.backend, msgstore.messages,
                                 [conversation_id |-> c,
                                  sequence_number |-> n])} :
            /\ Len(msgstore.messages) < MaxMessages
            /\ msgstore' = [msgstore EXCEPT !.messages = r.messages,
                                            !.ok = r.ok]
            /\ UNCHANGED <<ingestVars, vcall, setup, refs>>

NextMessages == InsertMessage

SpecMessages == InitMessages /\ [][NextMessages]_vars

(***************************************************************************)
(* The setup script: main() with DatabaseSetupManager.setup_database and   *)
(* the create_database / connect / create_tables (create_collections)      *)
(* calls of the chosen backend.  admin is the connection create_database   *)
(* opens to the server's default database, conn is self.connection         *)
(* (self.client on MongoDB); each is "none", "open" or "closed".           *)
(***************************************************************************)
SetupRun(d, available, sqlalchemy) ==
    [pc |-> "setup_database", db_type |-> d, available |-> available,
     sqlalchemy |-> sqlalchemy, db_setup |-> FALSE, admin |-> "none",
     conn |-> "none", engine |-> FALSE, exit |-> "none", branch |-> "none"]

InitSetup ==
    /\ NoIngestion
    /\ vcall = NoValidatorCall
    /\ msgstore = NoMessages
    /\ refs = NoRefs
    /\ setup \in {SetupRun(d, a, s) :
                    d \in DbTypes, a \in BOOLEAN, s \in BOOLEAN}

\* setup_database returned False: main calls sys.exit(1); the finally
\* clause runs next
ExitFailed(s) == [s EXCEPT !.pc = "finally", !.exit = "1", !.branch = "failed"]

\* KeyboardInterrupt reached main's handler
ExitInterrupted(s) ==
    [s EXCEPT !.pc = "finally", !.exit = "1", !.branch = "interrupted"]

\* setup_database up to the first call on the backend object
setup_database_begin(s) ==
    IF s.db_type \notin {"postgresql", "mysql", "mongodb"} THEN ExitFailed(s)
    ELSE IF ~s.available THEN ExitFailed(s)
    ELSE [s EXCEPT !.db_setup = TRUE,
                   !.pc = IF s.db_type = "mongodb" THEN "connect"
                          ELSE "create_database"]

SetupDatabaseBegin ==
    /\ setup.pc = "setup_database"
    /\ setup' = setup_database_begin(setup)
    /\ UNCHANGED <<ingestVars, vcall, msgstore, refs>>

CreateDatabaseOutcomes ==
    {"ok", "connect_raises", "statement_raises", "interrupt_connecting",
     "interrupt"}

\* PostgreSQLSetup.create_database, MySQLSetup.create_database: conn is
\* closed on the last line of the try block only
create_database(s, outcome) ==
    CASE outcome = "ok" -> [s EXCEPT !.admin = "closed", !.pc = "connect"]
      [] outcome = "connect_raises" -> ExitFailed(s)
      [] outcome = "statement_raises" -> ExitFailed([s EXCEPT !.admin = "open"])
      [] outcome = "interrupt_connecting" -> ExitInterrupted(s)
      [] outcome = "interrupt" -> ExitInterrupted([s EXCEPT !.admin = "open"])

CreateDatabase ==
    /\ setup.pc = "create_database"
    /\ \E outcome \in CreateDatabaseOutcomes :
           setup' = create_database(setup, outcome)
    /\ UNCHANGED <<ingestVars, vcall, msgstore, refs>>

SetupConnectOutcomes ==
    {"ok", "connect_raises", "later_raises", "interrupt_connecting",
     "interrupt"}

\* PostgreSQLSetup.connect, MySQLSetup.connect, MongoDBSetup.connect:
\* "later_raises" is create_engine, or the ping of MongoDB, raising once
\* self.connection (self.client) is assigned
setup_connect(s, outcome) ==
    CASE outcome = "ok" ->
            [s EXCEPT !.conn = "open",
                      !.engine = s.db_type # "mongodb" /\ s.sqlalchemy,
                      !.pc = "create_tables"]
      [] outcome = "connect_raises" -> ExitFailed(s)
      [] outcome = "later_raises" -> ExitFailed([s EXCEPT !.conn = "open"])
      [] outcome = "interrupt_connecting" -> ExitInterrupted(s)
      [] outcome = "interrupt" -> ExitInterrupted([s EXCEPT !.conn = "open"])

SetupConnect ==
    /\ setup.pc = "connect"
    /\ \E outcome \in SetupConnectOutcomes :
           setup' = setup_connect(setup, outcome)
    /\ UNCHANGED <<ingestVars, vcall, msgstore, refs>>

\* create_tables (create_collections): the connection stays open
create_tables(s, outcome) ==
    CASE outcome = "ok" -> [s EXCEPT !.pc = "save_connection_info"]
      [] outcome = "raises" -> ExitFailed(s)
      [] outcome = "interrupt" -> ExitInterrupted(s)

CreateTables ==
    /\ setup.pc = "create_tables"
    /\ \E outcome \in {"ok", "raises", "interrupt"} :
           setup' = create_tables(setup, outcome)
    /\ UNCHANGED <<ingestVars, vcall, msgstore, refs>>

\* main after setup_database returned True: the connection file is written
save_connection_info(s, outcome) ==
    CASE outcome = "ok" ->
            [s EXCEPT !.pc = "finally", !.exit = "0", !.branch = "completed"]
      [] outcome = "raises" ->
            [s EXCEPT !.pc = "finally", !.exit = "1", !.branch = "error"]
      [] outcome = "interrupt" -> ExitInterrupted(s)

SaveConnectionInfo ==
    /\ setup.pc = "save_connection_info"
    /\ \E outcome \in {"ok", "raises", "interrupt"} :
           setup' = save_connection_info(setup, outcome)
    /\ UNCHANGED <<ingestVars, vcall, msgstore, refs>>

\* DatabaseSetupManager.close and the close of the backend object:
\* self.connection (self.client) is closed and the engine disposed of
close(s) ==
    IF ~s.db_setup THEN s
    ELSE [s EXCEPT !.conn = IF s.conn = "open" THEN "closed" ELSE s.conn,
                   !.engine = FALSE]

Finally ==
    /\ setup.pc = "finally"
    /\ setup' = [close(setup) EXCEPT !.pc = "exited"]
    /\ UNCHANGED <<ingestVars, vcall, msgstore, refs>>

NextSetup ==
    \/ SetupDatabaseBegin
    \/ CreateDatabase
    \/ SetupConnect
    \/ CreateTables
    \/ SaveConnectionInfo
    \/ Finally

SpecSetup == InitSetup /\ [][NextSetup]_vars

(***************************************************************************)
(* References between entities.  The tables and their foreign keys are     *)
(* those of create_tables; the loaders of products and order items and     *)
(* the ReferenceResolver follow the specification (section 4.4).  An       *)
(* entity's id and its natural key (category name, SKU, order number)      *)
(* are one value of Keys; Null is the unresolved reference.                *)
(***************************************************************************)
Keys == {1, 2}

NoRefCall ==
    [op |-> "none", key |-> Null, ref |-> Null, miss |-> FALSE,
     inserted |-> FALSE, counted |-> 0]

EmptyStore(b) ==
    [backend |-> b, categories |-> {}, products |-> {}, orders |-> {},
     order_items |-> <<>>,
     stats |-> [e \in {"products", "order_items"} |-> ZeroStats],
     last |-> NoRefCall]

InitReferences ==
    /\ NoIngestion
    /\ vcall = NoValidatorCall
    /\ msgstore = NoMessages
    /\ setup = NoSetup
    /\ refs \in {EmptyStore(b) : b \in MsgBackends}

Skus(r) == {p.sku : p \in r.products}

\* a soft reference resolves to Null on a lookup miss
resolve_soft(lookup, key) == IF key \in lookup THEN key ELSE Null

\* stands in for resolve_hard in a resolver without hard references
resolve_hard_as_soft(lookup, key) ==
    [ok |-> TRUE, id |-> resolve_soft(lookup, key)]

\* a hard reference is an unresolved-reference fault on a lookup miss
resolve_hard(lookup, key) ==
    IF key \in lookup THEN [ok |-> TRUE, id |-> key]
    ELSE [ok |-> FALSE, id |-> Null]

\* stands in for products_accepts in a schema whose category_id is NOT NULL
products_accepts_not_null(r, row) ==
    /\ row.sku \notin Skus(r)
    /\ r.backend \in SqlTypes => row.category_id \in r.categories

\* products: sku UNIQUE, category_id INT REFERENCES categories(id) without
\* NOT NULL; the MongoDB collection has no constraint
products_accepts(r, row) ==
    /\ r.backend \in SqlTypes => row.sku \notin Skus(r)
    /\ r.backend \in SqlTypes =>
          (row.category_id = Null \/ row.category_id \in r.categories)

\* order_items: order_id INT REFERENCES orders(id), product_id INT
\* REFERENCES products(id), both without NOT NULL; the MySQL schema and the
\* MongoDB collections have no order_items constraint
order_items_accepts(r, row) ==
    r.backend = "postgresql" =>
        /\ (row.order_id = Null \/ row.order_id \in r.orders)
        /\ (row.product_id = Null \/ row.product_id \in Skus(r))

Counted(st, inserted) ==
    [st EXCEPT !.processed = @ + 1,
               !.inserted = IF inserted THEN @ + 1 ELSE @,
               !.errors = IF inserted THEN @ ELSE @ + 1]

LoadCategory ==
    \E k \in Keys \ refs.categories :
        /\ refs' = [refs EXCEPT !.categories = @ \cup {k},
                                !.last = [NoRefCall EXCEPT
                                             !.op = "load_category",
                                             !.key = k, !.inserted = TRUE]]
        /\ UNCHANGED <<ingestVars, vcall, msgstore, setup>>

LoadOrder ==
    \E k \in Keys \ refs.orders :
        /\ refs' = [refs EXCEPT !.orders = @ \cup {k},
                                !.last = [NoRefCall EXCEPT
                                             !.op = "load_order",
                                             !.key = k, !.inserted = TRUE]]
        /\ UNCHANGED <<ingestVars, vcall, msgstore, setup>>

\* one product row: its SKU is new (duplicates are the Deduplicator's),
\* category is the category named by the row, Null if it names none
load_product(r, sku, category) ==
    LET row == [sku |-> sku,
                category_id |-> resolve_soft(r.categories, category)]
        ok == products_accepts(r, row)
    IN  [r EXCEPT !.products = IF ok THEN @ \cup {row} ELSE @,
                  !.stats["products"] = Counted(@, ok),
                  !.last = [op |-> "load_product", key |-> sku,
                            ref |-> category,
                            miss |-> category \notin r.categories,
                            inserted |-> ok,
                            counted |-> IF ok THEN 0 ELSE 1]]

LoadProduct ==
    \E sku \in Keys \ Skus(refs), category \in Keys \cup {Null} :
        /\ refs' = load_product(refs, sku, category)
        /\ UNCHANGED <<ingestVars, vcall, msgstore, setup>>

\* one order-item row naming an order and a product
load_order_item(r, order, product) ==
    LET o == resolve_hard(r.orders, order)
        p == resolve_hard(Skus(r), product)
        row == [order_id |-> o.id, product_id |-> p.id]
        ok == o.ok /\ p.ok /\ order_items_accepts(r, row)
    IN  [r EXCEPT !.order_items = IF ok THEN Append(@, row) ELSE @,
                  !.stats["order_items"] = Counted(@, ok),
                  !.last = [op |-> "load_order_item", key |-> order,
                            ref |-> product,
                            miss |-> order \notin r.orders
                                        \/ product \notin Skus(r),
                            inserted |-> ok,
                            counted |-> IF ok THEN 0 ELSE 1]]

LoadOrderItem ==
    \E order \in Keys, product \in Keys :
        /\ refs.stats["order_items"].processed < MaxItemRows
        /\ refs' = load_order_item(refs, order, product)
        /\ UNCHANGED <<ingestVars, vcall, msgstore, setup>>

NextReferences ==
    \/ LoadCategory
    \/ LoadProduct
    \/ LoadOrder
    \/ LoadOrderItem

SpecReferences == InitReferences /\ [][NextReferences]_vars

(***************************************************************************)
(* Properties of load_categories_csv (checked under Spec).                 *)
(***************************************************************************)
IsLoad == last.op = "load_categories_csv"

\* the object holds the handle its backend branch inserts through
Connected ==
    \/ db_type \in SqlTypes /\ engine
    \/ db_type = "mongodb" /\ db

\* distinct non-empty trimmed names of the source of the last load
LastDistinct == last.rows - last.empty - last.dup

\* C1: per entity type processed = inserted + errors + duplicatesSkipped,
\* processed counting every row of the source.  The object has no
\* duplicatesSkipped counter; the rows drop_duplicates removed stand for it.
\* Stated for the loads that go through.
CountersBalance ==
    (IsLoad /\ Connected /\ last.path = "ok") =>
        /\ stats["categories"].processed = last.rows
        /\ stats["categories"].processed =
              stats["categories"].inserted + stats["categories"].errors
                  + last.dup

\* C2: a load that goes through inserts one category per distinct non-empty
\* trimmed name and counts every row whose name is empty after trimming as
\* one error (validation rejection).
BatchReported ==
    (IsLoad /\ Connected /\ last.path = "ok") =>
        /\ last.persisted = LastDistinct
        /\ stats["categories"].inserted = LastDistinct
        /\ last.counted = last.empty

\* C3: the store never holds two categories of the same name, on any
\* backend.
StoreNamesUnique == Unique(categories)

\* C4: loading a source all of whose names are already stored inserts
\* nothing, reports inserted = 0 and counts no error.
RerunInsertsNothing ==
    (/\ IsLoad /\ Connected /\ last.cleaned
     /\ last.columns = {"name", "description"}
     /\ LastDistinct > 0 /\ last.known = LastDistinct
     /\ last.path \in {"ok", "insert_error"}
     /\ db_type = "mongodb" => last.path = "ok") =>
        /\ last.persisted = 0
        /\ stats["categories"].inserted = 0
        /\ last.counted = 0
        /\ last.ret

\* C5: a load of a readable source without the 'name' column fails before
\* any cell is cleaned, persists nothing and changes no counter of any
\* entity type.
MissingNameColumnRejected ==
    [][(/\ last'.op = "load_categories_csv"
        /\ last'.readable
        /\ "name" \notin last'.columns) =>
            /\ ~last'.ret
            /\ ~last'.cleaned
            /\ last'.path = "missing_columns"
            /\ categories' = categories
            /\ stats' = stats]_vars

MissingNameColumnWitness ==
    /\ IsLoad /\ last.readable /\ "name" \notin last.columns
    /\ ~last.ret
    /\ categories # <<>>
    /\ stats["categories"].inserted > 0
    /\ stats["categories"].errors > 0

\* C6: a source with the 'name' column and without the optional
\* 'description' column is loaded: every distinct non-empty name is
\* inserted.
OptionalDescriptionDefaulted ==
    (/\ IsLoad /\ Connected /\ last.readable
     /\ last.columns = {"name"} /\ LastDistinct > 0 /\ last.known = 0) =>
        /\ last.ret
        /\ last.persisted = LastDistinct

\* C7: when the backend refuses one record of a batch, the other records
\* are persisted, one error is counted and inserted is the number of
\* records persisted.
RecordFailureIsolated ==
    (IsLoad /\ last.path = "insert_error" /\ last.rejected = 1) =>
        /\ last.persisted = LastDistinct - 1
        /\ last.counted = 1
        /\ stats["categories"].inserted = last.persisted

(***************************************************************************)
(* Properties of DataValidator (checked under SpecValidator).              *)
(***************************************************************************)
\* s without the characters of cs
Without(s, cs) == SelectSeq(s, LAMBDA c : c \notin cs)

IsNegative(x) == x.neg /\ (x.t = "inf" \/ x.mant > 0)

\* C8: no validator raises, whatever the value.
ValidatorsTotal == vcall.fn # "none" => vcall.result.t # "raise"

\* C9: validate_price gives None for a missing value, for a text that is no
\* number once '$' and ',' are removed and for a negative number; otherwise
\* the number itself.  "$1,299.00" gives 1299.00 and "-5" gives None.
ValidatePriceContract ==
    vcall.fn = "validate_price" =>
        LET v == vcall.arg
            r == vcall.result
            x == float_of_text(Without(py_str(v), {"$", ","}))
        IN  /\ pd_isna(v) => r = None
            /\ (~pd_isna(v) /\ x.t \in {"raise", "nan"}) => r = None
            /\ (~pd_isna(v) /\ x.t \in {"float", "inf"} /\ IsNegative(x))
                   => r = None
            /\ (~pd_isna(v) /\ x.t \in {"float", "inf"} /\ ~IsNegative(x))
                   => r = x
            /\ v = PyStr(<<"$", "1", ",", "2", "9", "9", ".", "0", "0">>)
                   => r = [t |-> "float", neg |-> FALSE, mant |-> 1299,
                           scale |-> 0]
            /\ v = PyStr(<<"-", "5">>) => r = None

ValidatePriceWitness ==
    /\ vcall.fn = "validate_price"
    /\ vcall.arg = PyStr(<<"$", "1", ",", "2", "9", "9", ".", "0", "0">>)
    /\ vcall.result = [t |-> "float", neg |-> FALSE, mant |-> 1299, scale |-> 0]

\* C10 as stated: for every finite numeric input validate_integer returns
\* the floor of its float conversion.
ValidateIntegerFloors ==
    (vcall.fn = "validate_integer" /\ ~pd_isna(vcall.arg)
        /\ py_float(vcall.arg).t = "float") =>
        LET x == py_float(vcall.arg)
            r == vcall.result
            sx == IF x.neg THEN -x.mant ELSE x.mant
        IN  /\ r.t = "int"
            /\ r.v * Pow10(x.scale) <= sx
            /\ sx < (r.v + 1) * Pow10(x.scale)

\* C10 amended: validate_integer gives None for a missing or non-numeric
\* value, and for every finite numeric value its float conversion truncated
\* toward zero.
ValidateIntegerTruncates ==
    vcall.fn = "validate_integer" =>
        LET v == vcall.arg
            r == vcall.result
            x == py_float(v)
            abs == IF r.v < 0 THEN -r.v ELSE r.v
        IN  /\ pd_isna(v) => r = None
            /\ (~pd_isna(v) /\ x.t \in {"raise", "nan"}) => r = None
            /\ (~pd_isna(v) /\ x.t = "float") =>
                   /\ r.t = "int"
                   /\ abs * Pow10(x.scale) <= x.mant
                   /\ x.mant < (abs + 1) * Pow10(x.scale)
                   /\ r.v < 0 => x.neg
                   /\ r.v > 0 => ~x.neg

ValidateIntegerWitness ==
    /\ vcall.fn = "validate_integer"
    /\ vcall.arg = PyStr(<<"-", ".", "5">>)
    /\ vcall.result = PyInt(0)

(***************************************************************************)
(* Properties of the messages store (checked under SpecMessages).          *)
(***************************************************************************)
MessagesOf(c) ==
    SelectSeq(msgstore.messages, LAMBDA m : m.conversation_id = c)

\* C11: in every conversation the n-th inserted message has sequence
\* number n, whatever number the source carried and whatever the backend.
SequenceNumbersCount ==
    \A c \in Conversations :
        \A i \in 1..Len(MessagesOf(c)) : MessagesOf(c)[i].sequence_number = i

\* C13: each of the seven entity types of an ingestion run has a
\* {processed, inserted, errors} counter triple.
EveryEntityTypeCounted ==
    \A e \in {"categories", "products", "users", "orders", "order_items",
              "conversations", "messages"} :
        /\ e \in DOMAIN stats
        /\ DOMAIN stats[e] = {"processed", "inserted", "errors"}

\* C16: after any sequence of load_categories_csv calls the categories
\* triple has inserted <= processed, and a call that persisted nothing does
\* not leave the records of an earlier call reported as inserted.
InsertedWithinProcessed ==
    /\ stats["categories"].inserted <= stats["categories"].processed
    /\ (IsLoad /\ last.persisted = 0) => stats["categories"].inserted = 0

\* C17: connect returns True only if self.connection is set; for a db_type
\* other than postgresql, mysql and mongodb it returns False.
ConnectReportsConnection ==
    (last.op = "connect" /\ last.ret) =>
        (connection /\ db_type \in {"postgresql", "mysql", "mongodb"})

(***************************************************************************)
(* Properties of the setup run (checked under SpecSetup).                  *)
(***************************************************************************)
\* C12: once the run has ended, on whatever path, no connection it opened
\* is still open.
ConnectionsReleased ==
    setup.pc = "exited" => (setup.admin # "open" /\ setup.conn # "open")

HardReferenceEnforced ==
    /\ (refs.last.op = "load_order_item" /\ refs.last.miss) =>
          (~refs.last.inserted /\ refs.last.counted = 1)
    /\ \A i \in 1..Len(refs.order_items) :
          /\ refs.order_items[i].order_id \in refs.orders
          /\ refs.order_items[i].product_id \in Skus(refs)

HardReferenceWitness ==
    /\ refs.last.op = "load_order_item"
    /\ refs.last.miss
    /\ refs.order_items # <<>>
    /\ refs.stats["order_items"].errors = 1

====
